---- MODULE Spec2Model ----
(***************************************************************************)
(* Model of dandi-rest-server/scripts/extract_schema.py.                   *)
(*                                                                         *)
(* Two specifications share the variables below.                           *)
(*   SpecSimplify : simplify_schema_for_llm applied (twice) to an input    *)
(*                  structure drawn from a bounded family.                 *)
(*   Spec         : the script run as a process: the import guard,         *)
(*                  extract_schemas() over the model registry, the files   *)
(*                  it writes and the exit status; run twice in a row.     *)
(*                                                                         *)
(* Python values.  A dict is a mutable object with an identity, so dicts   *)
(* live in a heap (mem), addressed by Ref cells; the order of a dict's     *)
(* entries is its insertion order.  Strings, numbers and lists are never   *)
(* mutated by the script, so they are cells held inline: a string is       *)
(* known by its length, a list by the sequence of its cells.               *)
(***************************************************************************)
EXTENDS Integers, Sequences, FiniteSets, TLC

\* simplify_schema_for_llm under test: the heap, the heap before the first
\* call, the argument, the returned cell, whether a call raised, the number
\* of calls made, the value returned by the first call
VARIABLES mem, mem0, arg, ret, raised, calls, out1

\* the script as a process: the model library (fixed), the control point,
\* the index of the registry entry the loop is at, the local
\* extracted_schemas, whether the output directory exists, the files in
\* it, the exit status, the exception that ended the process, the run
\* (first or second), the clock, the models that failed in this run
VARIABLES library, pc, idx, extracted_schemas, dir, files, exit_code, error,
          run, now, failed

\* history: directory and files when the process started, and the failed
\* models and result set of the previous run
VARIABLES dir0, files0, failed1, extracted1

simplifyVars == <<mem, mem0, arg, ret, raised, calls, out1>>
exportVars == <<library, pc, idx, extracted_schemas, dir, files, exit_code,
                error, run, now, failed, dir0, files0, failed1, extracted1>>
vars == <<simplifyVars, exportVars>>

(***************************************************************************)
(* Program constants of simplify_schema_for_llm.                           *)
(***************************************************************************)
PatternMax == 50
AnyOfMax == 5
AnyOfKeep == 3

(***************************************************************************)
(* Bounds of the input family.                                             *)
(***************************************************************************)
MaxDicts == 2
MaxAlt == 7

\* the number of registry entries the run goes through
MaxModels == 3

(***************************************************************************)
(* Cells.                                                                  *)
(***************************************************************************)
Str(n) == [t |-> "str", n |-> n, e |-> <<>>]
Num == [t |-> "num", n |-> 0, e |-> <<>>]
Ref(d) == [t |-> "ref", n |-> d, e |-> <<>>]
List(items) == [t |-> "list", n |-> 0, e |-> items]
None == [t |-> "none", n |-> 0, e |-> <<>>]

Entry(key, value) == [k |-> key, v |-> value]

\* isinstance(value, dict) / isinstance(value, list)
IsDict(c) == c.t = "ref"
IsList(c) == c.t = "list"

\* key in d
HasKey(d, key) == \E i \in DOMAIN d : d[i].k = key

\* d[key]
Get(d, key) == d[CHOOSE i \in DOMAIN d : d[i].k = key].v

\* del d[key]
DelKey(d, key) == SelectSeq(d, LAMBDA en : en.k # key)

\* d[key] = value, for a key already present (its position is kept)
SetKey(d, key, value) ==
    [i \in DOMAIN d |-> IF d[i].k = key THEN Entry(key, value) ELSE d[i]]

\* len(x) is defined for strings, lists and dicts, and raises TypeError
\* for a number
Sized(c) == c.t \in {"str", "list", "ref"}

PyLen(h, c) ==
    CASE c.t = "str" -> c.n
      [] c.t = "list" -> Len(c.e)
      [] c.t = "ref" -> Len(h[c.n])
      [] OTHER -> 0

\* x[:3] is defined for strings and lists; on a dict it raises
Sliceable(c) == c.t \in {"str", "list"}

\* len(schema.get('pattern', '')) > 50
PatternTooLong(n) == n > PatternMax

\* len(schema['anyOf']) > 5
TooManyAlternatives(n) == n > AnyOfMax

\* items[:3]
KeepAlternativesShifted(items) ==
    SubSeq(items, 2, IF Len(items) < AnyOfKeep + 1 THEN Len(items) ELSE AnyOfKeep + 1)
KeepAlternativesDropLast(items) == SubSeq(items, 1, Len(items) - 1)
KeepAlternatives(items) ==
    SubSeq(items, 1, IF Len(items) < AnyOfKeep THEN Len(items) ELSE AnyOfKeep)

Slice(c) ==
    IF c.t = "str"
    THEN Str(IF c.n < AnyOfKeep THEN c.n ELSE AnyOfKeep)
    ELSE List(KeepAlternatives(c.e))

Ok(h) == [h |-> h, ok |-> TRUE]
Raise(h) == [h |-> h, ok |-> FALSE]

\* if 'pattern' in schema and len(schema.get('pattern', '')) > 50:
\*     del schema['pattern']
RemovePatternNoop(h, d) == Ok(h)
RemovePattern(h, d) ==
    IF ~HasKey(h[d], "pattern") THEN Ok(h)
    ELSE LET v == Get(h[d], "pattern") IN
         IF ~Sized(v) THEN Raise(h)
         ELSE IF PatternTooLong(PyLen(h, v))
              THEN Ok([h EXCEPT ![d] = DelKey(h[d], "pattern")])
              ELSE Ok(h)

\* if 'anyOf' in schema and len(schema['anyOf']) > 5:
\*     schema['anyOf'] = schema['anyOf'][:3]
TruncateAnyOf(h, d) ==
    IF ~HasKey(h[d], "anyOf") THEN Ok(h)
    ELSE LET v == Get(h[d], "anyOf") IN
         IF ~Sized(v) THEN Raise(h)
         ELSE IF TooManyAlternatives(PyLen(h, v))
              THEN IF Sliceable(v)
                   THEN Ok([h EXCEPT ![d] = SetKey(h[d], "anyOf", Slice(v))])
                   ELSE Raise(h)
              ELSE Ok(h)

RECURSIVE simplify_schema_for_llm(_, _)
RECURSIVE SimplifyItems(_, _, _, _)
RECURSIVE SimplifyEntries(_, _, _)

\* [simplify_schema_for_llm(item) if isinstance(item, dict) else item
\*  for item in value], from item i on; out is the list built so far
SimplifyItems(h, items, i, out) ==
    IF i > Len(items) THEN [h |-> h, ok |-> TRUE, out |-> out]
    ELSE IF IsDict(items[i])
         THEN LET r == simplify_schema_for_llm(h, items[i]) IN
              IF ~r.ok THEN [h |-> r.h, ok |-> FALSE, out |-> out]
              ELSE SimplifyItems(r.h, items, i + 1, Append(out, r.ret))
         ELSE SimplifyItems(h, items, i + 1, Append(out, items[i]))

\* for key, value in schema.items(): ..., from entry i on
SimplifyEntries(h, d, i) ==
    IF i > Len(h[d]) THEN Ok(h)
    ELSE LET key == h[d][i].k
             value == h[d][i].v
         IN IF IsDict(value)
            THEN LET r == simplify_schema_for_llm(h, value) IN
                 IF ~r.ok THEN Raise(r.h)
                 ELSE SimplifyEntries(
                        [r.h EXCEPT ![d] = SetKey(r.h[d], key, r.ret)], d, i + 1)
            ELSE IF IsList(value)
                 THEN LET r == SimplifyItems(h, value.e, 1, <<>>) IN
                      IF ~r.ok THEN Raise(r.h)
                      ELSE SimplifyEntries(
                             [r.h EXCEPT ![d] = SetKey(r.h[d], key, List(r.out))],
                             d, i + 1)
                 ELSE SimplifyEntries(h, d, i + 1)

\* def simplify_schema_for_llm(schema); the result is the heap after the
\* call, whether it returned (ok) or raised, and the returned cell
simplify_schema_for_llm(h, schema) ==
    IF ~IsDict(schema) THEN [h |-> h, ok |-> TRUE, ret |-> schema]
    ELSE LET r1 == RemovePattern(h, schema.n) IN
         IF ~r1.ok THEN [h |-> r1.h, ok |-> FALSE, ret |-> None]
         ELSE LET r2 == TruncateAnyOf(r1.h, schema.n) IN
              IF ~r2.ok THEN [h |-> r2.h, ok |-> FALSE, ret |-> None]
              ELSE LET r3 == SimplifyEntries(r2.h, schema.n, 1) IN
                   [h |-> r3.h, ok |-> r3.ok,
                    ret |-> IF r3.ok THEN schema ELSE None]

(***************************************************************************)
(* The JSON value a cell denotes: the heap unfolded from that cell.  This  *)
(* is what json.dump writes: references are followed, sharing is lost,     *)
(* entry order is kept.                                                    *)
(***************************************************************************)
RECURSIVE Val(_, _)
Val(h, c) ==
    CASE c.t = "ref" ->
           [t |-> "dict", n |-> 0,
            e |-> [i \in DOMAIN h[c.n] |->
                     Entry(h[c.n][i].k, Val(h, h[c.n][i].v))]]
      [] c.t = "list" ->
           [t |-> "list", n |-> 0, e |-> [i \in DOMAIN c.e |-> Val(h, c.e[i])]]
      [] OTHER -> c

(***************************************************************************)
(* Each specification leaves the other's variables at rest.                *)
(***************************************************************************)
ExportAtRest ==
    /\ library = <<>>
    /\ pc = "none"
    /\ idx = 0
    /\ extracted_schemas = <<>>
    /\ dir = FALSE
    /\ files = <<>>
    /\ exit_code = 0
    /\ error = "none"
    /\ run = 0
    /\ now = 0
    /\ failed = {}
    /\ dir0 = FALSE
    /\ files0 = <<>>
    /\ failed1 = {}
    /\ extracted1 = <<>>

SimplifyAtRest ==
    /\ mem = <<>>
    /\ mem0 = <<>>
    /\ arg = None
    /\ ret = None
    /\ raised = FALSE
    /\ calls = 0
    /\ out1 = None

(***************************************************************************)
(* The input family of SpecSimplify: a heap of MaxDicts dicts, dict i      *)
(* referring to dict i+1 (so the structure is acyclic, and a dict may be   *)
(* shared by two entries of its parent).                                   *)
(***************************************************************************)
PatternLens == {PatternMax, PatternMax + 1}
ListLens == {AnyOfMax, MaxAlt}
Positions == {AnyOfKeep, AnyOfKeep + 1}

\* a list of L items: strings of distinct lengths, item q being `special`
ListWith(L, q, special) == List([p \in 1..L |-> IF p = q THEN special ELSE Str(p)])

\* the cells through which dict i refers to dict i+1: the dict itself, or
\* a list holding it
Specials(i) == IF i < MaxDicts THEN {Ref(i + 1), List(<<Ref(i + 1)>>)} ELSE {}

PatternChoices == {None, Num} \cup {Str(n) : n \in PatternLens}

AnyOfChoices(i) ==
    {None} \cup {ListWith(L, 0, None) : L \in ListLens}
           \cup {ListWith(L, q, s) : L \in ListLens, q \in Positions, s \in Specials(i)}

ItemsChoices(i) == {None} \cup Specials(i)

MkDict(p, a, x) ==
    (IF p = None THEN <<>> ELSE <<Entry("pattern", p)>>)
    \o (IF a = None THEN <<>> ELSE <<Entry("anyOf", a)>>)
    \o (IF x = None THEN <<>> ELSE <<Entry("items", x)>>)

DictChoices(i) ==
    {MkDict(p, a, x) : p \in PatternChoices, a \in AnyOfChoices(i), x \in ItemsChoices(i)}

RECURSIVE HeapsFrom(_)
\* the heaps holding dicts i..MaxDicts
HeapsFrom(i) ==
    IF i > MaxDicts THEN {<<>>}
    ELSE {<<d>> \o rest : d \in DictChoices(i), rest \in HeapsFrom(i + 1)}

\* dict 1 first: a heap is the sequence of its dicts
Heaps == HeapsFrom(1)

\* the argument of the call: the root dict, or a list holding it
Args == {Ref(1), List(<<Ref(1)>>)}

(***************************************************************************)
(* SpecSimplify                                                            *)
(***************************************************************************)
InitSimplify ==
    /\ mem \in Heaps
    /\ mem0 = mem
    /\ arg \in Args
    /\ ret = None
    /\ raised = FALSE
    /\ calls = 0
    /\ out1 = None
    /\ ExportAtRest

\* simplified = simplify_schema_for_llm(schema)
FirstCall ==
    /\ calls = 0
    /\ LET r == simplify_schema_for_llm(mem, arg) IN
         /\ mem' = r.h
         /\ ret' = r.ret
         /\ raised' = ~r.ok
         /\ out1' = IF r.ok THEN Val(r.h, r.ret) ELSE None
    /\ calls' = 1
    /\ UNCHANGED <<mem0, arg, exportVars>>

\* simplify_schema_for_llm(simplified)
SecondCall ==
    /\ calls = 1
    /\ ~raised
    /\ LET r == simplify_schema_for_llm(mem, ret) IN
         /\ mem' = r.h
         /\ ret' = r.ret
         /\ raised' = ~r.ok
    /\ calls' = 2
    /\ UNCHANGED <<mem0, arg, out1, exportVars>>

NextSimplify == FirstCall \/ SecondCall

SpecSimplify == InitSimplify /\ [][NextSimplify]_vars

(***************************************************************************)
(* The script as a process.                                                *)
(***************************************************************************)
\* models = {'Dandiset': Dandiset, ...}, in insertion order
Registry ==
    <<"Dandiset", "Person", "Organization", "Contributor", "ContactPoint",
      "Affiliation", "AssetsSummary", "AccessRequirements", "PropertyValue",
      "Resource", "Activity", "Project", "Session", "Equipment", "Software",
      "Agent", "Asset", "BareAsset">>

\* name.lower()
Lower ==
    <<"dandiset", "person", "organization", "contributor", "contactpoint",
      "affiliation", "assetssummary", "accessrequirements", "propertyvalue",
      "resource", "activity", "project", "session", "equipment", "software",
      "agent", "asset", "bareasset">>

\* the registry entries the run goes through
NumModels == IF MaxModels < Len(Registry) THEN MaxModels ELSE Len(Registry)
ModelIds == 1..NumModels

\* f'{name.lower()}.schema.json'
SchemaFileFixed(m) == Lower[1] \o ".schema.json"
SchemaFile(m) == Lower[m] \o ".schema.json"

CombinedFile == "all_schemas.json"
SummaryFile == "schema_summary.json"

FileNames == {SchemaFile(m) : m \in ModelIds} \cup {CombinedFile, SummaryFile}

\* what a file of the output directory holds: nothing (the file does not
\* exist), the part of a document written before the write failed, or a
\* document
Absent == [t |-> "absent", n |-> 0, e |-> <<>>]
Partial == [t |-> "partial", n |-> 0, e |-> <<>>]

\* with open(file, 'w') as f: json.dump(doc, f, indent=2): what the file
\* holds afterwards, given what it held before
WrittenAppended(old, doc) ==
    IF old = Absent THEN doc ELSE [t |-> "appended", n |-> 0, e |-> <<old, doc>>]
Written(old, doc) == doc

\* json.dump(extracted_schemas, f): the mapping of names to schemas
CombinedDoc(ex) == [t |-> "dict", n |-> 0, e |-> ex]

\* summary = {'extracted_at': ..., 'total_schemas': ..., 'schema_names':
\* ..., 'file_locations': ...}
SummaryDocOfRegistry(ex, time) ==
    [t |-> "summary",
     extracted_at |-> time,
     total_schemas |-> NumModels,
     schema_names |-> [j \in ModelIds |-> Registry[j]],
     file_locations |-> [j \in ModelIds |-> Entry(Registry[j], SchemaFile(j))]]
SummaryDoc(ex, time) ==
    [t |-> "summary",
     extracted_at |-> time,
     total_schemas |-> Len(ex),
     schema_names |-> [j \in DOMAIN ex |-> ex[j].k],
     file_locations |->
        [j \in DOMAIN ex |->
           Entry(ex[j].k,
                 SchemaFile(CHOOSE m \in 1..Len(Registry) : Registry[m] = ex[j].k))]]

\* extracted_schemas[name] = simplified_schema
Record(ex, name, value) ==
    IF HasKey(ex, name) THEN SetKey(ex, name, value)
    ELSE Append(ex, Entry(name, value))

(***************************************************************************)
(* The model library.  model_json_schema() of model m raises or returns a  *)
(* fresh structure; three shapes of structure stand for what a model may   *)
(* return.                                                                 *)
(***************************************************************************)
Kinds == {"plain", "complex", "badpattern", "raises"}

\* the structure returned, as a heap whose dict 1 is the schema
ModelSchema(kind, m) ==
    CASE kind = "plain" ->
           << <<Entry("title", Str(m))>> >>
      [] kind = "complex" ->
           << <<Entry("title", Str(m)),
                Entry("pattern", Str(PatternMax + 1)),
                Entry("anyOf", ListWith(MaxAlt, AnyOfKeep, Ref(2)))>>,
              <<Entry("pattern", Str(PatternMax + 1))>> >>
      [] OTHER ->
           << <<Entry("title", Str(m)), Entry("pattern", Num)>> >>

Exports(m) == library[m] # "raises"

\* simplify_schema_for_llm(model.model_json_schema())
Simplified(m) == simplify_schema_for_llm(ModelSchema(library[m], m), Ref(1))

\* the document json.dump(simplified_schema, f, indent=2) writes
SchemaDoc(m) == Val(Simplified(m).h, Simplified(m).ret)

NoFiles == [f \in FileNames |-> Absent]

Init ==
    /\ SimplifyAtRest
    /\ library \in [ModelIds -> Kinds]
    /\ pc = "import"
    /\ idx = 1
    /\ extracted_schemas = <<>>
    /\ dir \in BOOLEAN
    /\ files = NoFiles
    /\ exit_code = 0
    /\ error = "none"
    /\ run = 1
    /\ now = 1
    /\ failed = {}
    /\ dir0 = dir
    /\ files0 = files
    /\ failed1 = {}
    /\ extracted1 = <<>>

history == <<dir0, files0, failed1, extracted1>>

\* the process ends on an uncaught exception: exit status 1
Crash(why) ==
    /\ pc' = "exited"
    /\ exit_code' = 1
    /\ error' = why

\* from dandischema.models import (...)
ImportOk ==
    /\ pc = "import"
    /\ pc' = "mkdir"
    /\ UNCHANGED <<simplifyVars, library, idx, extracted_schemas, dir, files,
                   exit_code, error, run, now, failed, history>>

\* except ImportError as e: ... exit(1)
ImportFailsAfterMkdir ==
    /\ pc = "import"
    /\ Crash("import")
    /\ dir' = TRUE
    /\ UNCHANGED <<simplifyVars, library, idx, extracted_schemas, files,
                   run, now, failed, history>>
ImportFails ==
    /\ pc = "import"
    /\ Crash("import")
    /\ UNCHANGED <<simplifyVars, library, idx, extracted_schemas, dir, files,
                   run, now, failed, history>>

\* schemas_dir.mkdir(parents=True, exist_ok=True); extracted_schemas = {}
MkdirOk ==
    /\ pc = "mkdir"
    /\ dir' = TRUE
    /\ extracted_schemas' = <<>>
    /\ idx' = 1
    /\ pc' = "loop"
    /\ UNCHANGED <<simplifyVars, library, files, exit_code, error, run, now,
                   failed, history>>

\* mkdir raises (the directory cannot be created): nothing catches it
MkdirFails ==
    /\ pc = "mkdir"
    /\ ~dir
    /\ Crash("mkdir")
    /\ UNCHANGED <<simplifyVars, library, idx, extracted_schemas, dir, files,
                   run, now, failed, history>>

\* continue: the loop goes on with the next registry entry
Break(i) == NumModels + 1
Continue(i) == i + 1

\* except Exception as e: print(...); continue
Skip ==
    /\ failed' = failed \cup {idx}
    /\ idx' = Continue(idx)
    /\ UNCHANGED <<simplifyVars, library, pc, extracted_schemas, dir,
                   exit_code, error, run, now, history>>

InLoop == pc = "loop" /\ idx <= NumModels

\* one iteration of the loop, nothing raising
ExtractOk ==
    /\ InLoop
    /\ Exports(idx)
    /\ Simplified(idx).ok
    /\ files' = [files EXCEPT ![SchemaFile(idx)] = Written(@, SchemaDoc(idx))]
    /\ extracted_schemas' = Record(extracted_schemas, Registry[idx], SchemaDoc(idx))
    /\ idx' = idx + 1
    /\ UNCHANGED <<simplifyVars, library, pc, dir, exit_code, error, run, now,
                   failed, history>>

\* model.model_json_schema() raises
ExportRaises ==
    /\ InLoop
    /\ ~Exports(idx)
    /\ Skip
    /\ UNCHANGED files

\* simplify_schema_for_llm(schema) raises
SimplifyRaises ==
    /\ InLoop
    /\ Exports(idx)
    /\ ~Simplified(idx).ok
    /\ Skip
    /\ UNCHANGED files

\* open(schema_file, 'w') raises: the file is neither created nor truncated
OpenFails ==
    /\ InLoop
    /\ Exports(idx)
    /\ Simplified(idx).ok
    /\ Skip
    /\ UNCHANGED files

\* json.dump(simplified_schema, f, indent=2) raises after open(schema_file,
\* 'w') created or truncated the file
DumpFails ==
    /\ InLoop
    /\ Exports(idx)
    /\ Simplified(idx).ok
    /\ files' = [files EXCEPT ![SchemaFile(idx)] = Partial]
    /\ Skip

AfterLoop == pc = "loop" /\ idx > NumModels

\* with open(combined_file, 'w') as f: json.dump(extracted_schemas, f, indent=2)
WriteCombinedOk ==
    /\ AfterLoop
    /\ files' = [files EXCEPT ![CombinedFile] = Written(@, CombinedDoc(extracted_schemas))]
    /\ pc' = "summary"
    /\ UNCHANGED <<simplifyVars, library, idx, extracted_schemas, dir,
                   exit_code, error, run, now, failed, history>>

\* the same, open or json.dump raising: nothing catches it
WriteCombinedFails ==
    /\ AfterLoop
    /\ \/ UNCHANGED files
       \/ files' = [files EXCEPT ![CombinedFile] = Partial]
    /\ Crash("combined")
    /\ UNCHANGED <<simplifyVars, library, idx, extracted_schemas, dir, run,
                   now, failed, history>>

\* summary = {...}; with open(summary_file, 'w') as f: json.dump(summary, f, indent=2)
WriteSummaryOk ==
    /\ pc = "summary"
    /\ files' = [files EXCEPT ![SummaryFile] = Written(@, SummaryDoc(extracted_schemas, now))]
    /\ pc' = "return"
    /\ UNCHANGED <<simplifyVars, library, idx, extracted_schemas, dir,
                   exit_code, error, run, now, failed, history>>

\* the same, open or json.dump raising: nothing catches it
WriteSummaryFails ==
    /\ pc = "summary"
    /\ \/ UNCHANGED files
       \/ files' = [files EXCEPT ![SummaryFile] = Partial]
    /\ Crash("summary")
    /\ UNCHANGED <<simplifyVars, library, idx, extracted_schemas, dir, run,
                   now, failed, history>>

\* return extracted_schemas; print("\nSchema extraction complete!"); the
\* process ends with status 0
FinishReportingFailures ==
    /\ pc = "return"
    /\ pc' = "exited"
    /\ exit_code' = IF failed = {} THEN 0 ELSE 1
    /\ UNCHANGED <<simplifyVars, library, idx, extracted_schemas, dir, files,
                   error, run, now, failed, history>>
Finish ==
    /\ pc = "return"
    /\ pc' = "exited"
    /\ exit_code' = 0
    /\ UNCHANGED <<simplifyVars, library, idx, extracted_schemas, dir, files,
                   error, run, now, failed, history>>

\* the script is run a second time, with the model library unchanged, on
\* the directory the first run left
RunAgain ==
    /\ pc = "exited"
    /\ run = 1
    /\ exit_code = 0
    /\ run' = 2
    /\ now' = now + 1
    /\ pc' = "import"
    /\ idx' = 1
    /\ extracted_schemas' = <<>>
    /\ failed' = {}
    /\ dir0' = dir
    /\ files0' = files
    /\ failed1' = failed
    /\ extracted1' = extracted_schemas
    /\ UNCHANGED <<simplifyVars, library, dir, files, exit_code, error>>

Next ==
    \/ ImportOk \/ ImportFails
    \/ MkdirOk \/ MkdirFails
    \/ ExtractOk \/ ExportRaises \/ SimplifyRaises \/ OpenFails \/ DumpFails
    \/ WriteCombinedOk \/ WriteCombinedFails
    \/ WriteSummaryOk \/ WriteSummaryFails
    \/ Finish
    \/ RunAgain

Spec == Init /\ [][Next]_vars

(***************************************************************************)
(* Dicts reachable from a cell.                                            *)
(***************************************************************************)
RECURSIVE RefsIn(_)
\* every dict a cell holds, at any depth of list nesting
RefsIn(c) ==
    CASE c.t = "ref" -> {c.n}
      [] c.t = "list" -> UNION {RefsIn(c.e[i]) : i \in DOMAIN c.e}
      [] OTHER -> {}

\* the dicts a dict entry holds as its value or as an item of its list value
DirectRefs(c) ==
    CASE c.t = "ref" -> {c.n}
      [] c.t = "list" -> {c.e[i].n : i \in {j \in DOMAIN c.e : c.e[j].t = "ref"}}
      [] OTHER -> {}

RECURSIVE ReachFrom(_, _)
ReachFrom(h, S) ==
    LET next == S \cup UNION {UNION {RefsIn(h[d][i].v) : i \in DOMAIN h[d]} : d \in S}
    IN IF next = S THEN S ELSE ReachFrom(h, next)

RECURSIVE VisitedFrom(_, _)
VisitedFrom(h, S) ==
    LET next == S \cup UNION {UNION {DirectRefs(h[d][i].v) : i \in DOMAIN h[d]} : d \in S}
    IN IF next = S THEN S ELSE VisitedFrom(h, next)

\* every dict of the structure
Reach(h, c) == ReachFrom(h, RefsIn(c))

\* the dicts the structure holds along dict values and dict items of lists
\* that are dict values, from a dict root
Visited(h, c) == IF IsDict(c) THEN VisitedFrom(h, {c.n}) ELSE {}

HadLongPattern(d) ==
    /\ HasKey(mem0[d], "pattern")
    /\ Get(mem0[d], "pattern").t = "str"
    /\ Get(mem0[d], "pattern").n > PatternMax

HadManyAlternatives(d) ==
    /\ HasKey(mem0[d], "anyOf")
    /\ Get(mem0[d], "anyOf").t = "list"
    /\ Len(Get(mem0[d], "anyOf").e) > AnyOfMax

NodeSimplified(d) ==
    /\ HadLongPattern(d) => ~HasKey(mem[d], "pattern")
    /\ HadManyAlternatives(d) =>
         /\ HasKey(mem[d], "anyOf")
         /\ Get(mem[d], "anyOf") = List(SubSeq(Get(mem0[d], "anyOf").e, 1, AnyOfKeep))

Returned == calls >= 1 /\ ~raised

\* C1 as stated: in the result of simplify_schema_for_llm every node of the
\* structure, at any depth and under any nesting of lists, that had a
\* 'pattern' string longer than 50 has lost it and that had more than 5
\* 'anyOf' alternatives keeps exactly the first three.
C1_EveryNodeSimplified ==
    Returned => \A d \in Reach(mem, ret) : NodeSimplified(d)

\* C1 amended: the same, for the nodes held along dict values and along
\* dict items of lists that are themselves dict values, under a dict root.
C1_VisitedNodesSimplified ==
    Returned => \A d \in Visited(mem, ret) : NodeSimplified(d)

C1_Witness ==
    /\ Returned
    /\ HadLongPattern(1) /\ HadManyAlternatives(1)
    /\ \E d \in Visited(mem, ret) : d # 1 /\ HadLongPattern(d) /\ HadManyAlternatives(d)

\* C2: simplify_schema_for_llm is idempotent: a second application to the
\* result of the first returns, and returns a structure of the same value.
C2_Idempotent ==
    calls = 2 => ~raised /\ Val(mem, ret) = out1

C2_Witness ==
    /\ calls = 2 /\ ~raised
    /\ out1 # Val(mem0, arg)
    /\ \E d \in Visited(mem, ret) : HadManyAlternatives(d)

StillLong(d) ==
    /\ HasKey(mem[d], "pattern")
    /\ Get(mem[d], "pattern").t = "str"
    /\ Get(mem[d], "pattern").n > PatternMax

StillMany(d) ==
    /\ HasKey(mem[d], "anyOf")
    /\ Get(mem[d], "anyOf").t = "list"
    /\ Len(Get(mem[d], "anyOf").e) > AnyOfMax

\* C10 as stated: the call leaves the structure passed to it as it was.
C10_InputUntouched ==
    calls >= 1 => Val(mem, arg) = Val(mem0, arg)

\* C10 amended: the call returns the very structure it was given,
\* simplified in place: the caller's input has the value of the result, no
\* visited dict keeps a long 'pattern' or more than 5 alternatives, and
\* only the dicts the recursion does not visit are as they were.
C10_SimplifiedInPlace ==
    Returned =>
        /\ ret = arg
        /\ DOMAIN mem = DOMAIN mem0
        /\ \A d \in Visited(mem, arg) : ~StillLong(d) /\ ~StillMany(d)
        /\ \A d \in DOMAIN mem : d \notin Visited(mem0, arg) => mem[d] = mem0[d]

\* a dict held twice by its parent, changed by the call
C10_Witness ==
    /\ Returned
    /\ mem[1] # mem0[1]
    /\ \E d \in Visited(mem, arg) :
         /\ d # 1
         /\ mem[d] # mem0[d]
         /\ HasKey(mem0[1], "items") /\ d \in DirectRefs(Get(mem0[1], "items"))
         /\ HasKey(mem[1], "anyOf") /\ d \in DirectRefs(Get(mem[1], "anyOf"))

(***************************************************************************)
(* Properties of the process.                                              *)
(***************************************************************************)
\* extract_schemas() ran to its return statement
Completed == pc = "return" \/ (pc = "exited" /\ error = "none")

\* the registry names of the models that did not fail, in registry order
SucceededNames ==
    SelectSeq([m \in ModelIds |-> Registry[m]],
              LAMBDA nm : \A m \in failed : Registry[m] # nm)

Names(ex) == [j \in DOMAIN ex |-> ex[j].k]

IdOf(name) == CHOOSE m \in 1..Len(Registry) : Registry[m] = name

IsDocument(c) == c.t = "dict"

Existing == {f \in FileNames : files[f] # Absent}

\* C3: a model that fails does not abort the batch: at the end of the loop
\* every registry entry has been attempted, and in a completed run every
\* model that did not fail has its file and its entry in the result set,
\* and the combined file and the summary hold exactly the models that did
\* not fail, in registry order.
C3_FailuresDoNotAbort ==
    /\ pc = "loop" => failed \subseteq 1..(idx - 1)
    /\ (pc \in {"summary", "return"} \/ Completed) =>
          Names(extracted_schemas) = SucceededNames
    /\ Completed =>
          /\ \A m \in ModelIds \ failed : IsDocument(files[SchemaFile(m)])
          /\ IsDocument(files[CombinedFile])
          /\ Names(files[CombinedFile].e) = SucceededNames
          /\ files[SummaryFile].t = "summary"
          /\ files[SummaryFile].schema_names = SucceededNames

\* one model failed, a later one did not, and the summary lists all but one
C3_Witness ==
    /\ Completed /\ pc = "exited"
    /\ Cardinality(failed) = 1
    /\ \E m \in failed : m < NumModels /\ m + 1 \notin failed
    /\ Len(files[SummaryFile].schema_names) = NumModels - 1
    /\ Cardinality({m \in ModelIds : IsDocument(files[SchemaFile(m)])}) = NumModels - 1

\* C4: after a completed run the individual file of every model named in
\* all_schemas.json holds the value all_schemas.json has under that name.
C4_FilesAgreeWithCombined ==
    Completed =>
        \A j \in DOMAIN files[CombinedFile].e :
            files[Lower[IdOf(files[CombinedFile].e[j].k)] \o ".schema.json"]
              = files[CombinedFile].e[j].v

C4_Witness ==
    /\ Completed
    /\ Len(files[CombinedFile].e) >= 2
    /\ files[CombinedFile].e[1].v # files[CombinedFile].e[2].v
    /\ failed # {}

\* C5: after a completed run schema_summary.json agrees with
\* all_schemas.json: total_schemas is its number of keys, schema_names its
\* keys in order, file_locations maps exactly those names to
\* '<lowercased-name>.schema.json'.
C5_SummaryAgreesWithCombined ==
    Completed =>
        LET all == files[CombinedFile].e
            sm == files[SummaryFile]
        IN /\ sm.total_schemas = Cardinality({all[j].k : j \in DOMAIN all})
           /\ sm.schema_names = Names(all)
           /\ sm.file_locations =
                [j \in DOMAIN all |->
                   Entry(all[j].k, Lower[IdOf(all[j].k)] \o ".schema.json")]

C5_Witness ==
    /\ Completed
    /\ failed # {}
    /\ files[SummaryFile].total_schemas >= 2
    /\ files[SummaryFile].total_schemas < NumModels

\* C6: when the import of the model library fails the process exits with a
\* non-zero status and has touched nothing: the output directory is as it
\* was (not created if it was absent) and no file is written.
C6_ImportFailureWritesNothing ==
    (pc = "exited" /\ error = "import") =>
        /\ exit_code # 0
        /\ dir = dir0
        /\ files = files0

C6_Witness ==
    /\ pc = "exited" /\ error = "import"
    /\ ~dir
    /\ Existing = {}

\* C7 as stated: whenever the import succeeds the process ends with exit
\* status zero, whatever fails afterwards.
C7_ZeroUnlessImportFails ==
    (pc = "exited" /\ error # "import") => exit_code = 0

\* C7 amended: the exit status is zero exactly when no exception leaves the
\* script: per-model failures never change it, while a failure of the
\* import, of mkdir, or of the write of the combined or the summary file
\* ends the process with a non-zero status.
C7_ZeroUnlessUncaught ==
    pc = "exited" =>
        /\ error = "none" => exit_code = 0
        /\ error \in {"import", "mkdir", "combined", "summary"} => exit_code # 0
        /\ error \in {"none", "import", "mkdir", "combined", "summary"}

\* every model failed and the status is still zero
C7_Witness ==
    /\ pc = "exited" /\ exit_code = 0
    /\ failed = ModelIds

\* C8: a completed run into an empty directory leaves N+2 files, N being
\* the number of models in the result set, and no file for a model that
\* failed.
C8_NPlusTwoFiles ==
    (Completed /\ pc = "exited" /\ files0 = NoFiles) =>
        /\ Cardinality(Existing) = Len(extracted_schemas) + 2
        /\ \A m \in failed : files[SchemaFile(m)] = Absent

====
